---- MODULE Spec2Model ----
(***************************************************************************)
(* kusari: an HTTP/1.1 client over one TLS stream (src/src/client.rs).     *)
(* Clones of a Client share one Arc<Mutex<TlsStream>>; send_request        *)
(* serialises a request, writes it and parses the response with            *)
(* read_response.  Bytes are modelled as one-character strings, "CR" and   *)
(* "LF" standing for \r and \n, "SP" for a space, "0xFF" for a byte that   *)
(* is not valid UTF-8.                                                     *)
(***************************************************************************)
EXTENDS Integers, Sequences, FiniteSets, TLC

\* ------------------------------------------------------------------ bounds
\* The model's buffer keeps at most MaxBuf bytes (the newest ones); every
\* script is shorter.
MaxBuf == 52

\* usize is modelled UsizeBits wide; every length of the model is far below
\* 2^(UsizeBits-1), so the only wrap is the subtraction of client.rs:145.
UsizeBits == 16

\* The header-block limit the specification asks for, scaled to the model.
MaxHeaderBlock == 24

\* ------------------------------------------------------- program constants
HeaderBufSize == 8192

U16Max == 65535

StatusCodeMin == 100

StatusCodeMax == 999

UsizeModulus == 2 ^ UsizeBits

IsizeMax == 2 ^ (UsizeBits - 1) - 1

\* ------------------------------------------------------------------- bytes
CR == "CR"

LF == "LF"

SP == "SP"

CRLF == <<CR, LF>>

Digits == <<"0", "1", "2", "3", "4", "5", "6", "7", "8", "9">>

UpperCase == <<"A", "B", "C", "D", "E", "F", "G", "H", "I", "J", "K", "L", "M",
               "N", "O", "P", "Q", "R", "S", "T", "U", "V", "W", "X", "Y", "Z">>

LowerCase == <<"a", "b", "c", "d", "e", "f", "g", "h", "i", "j", "k", "l", "m",
               "n", "o", "p", "q", "r", "s", "t", "u", "v", "w", "x", "y", "z">>

Range(s) == {s[i] : i \in 1..Len(s)}

IndexIn(s, c) == CHOOSE i \in 1..Len(s) : s[i] = c

Min(a, b) == IF a < b THEN a ELSE b

IsDigit(c) == c \in Range(Digits)

DigitValue(c) == IndexIn(Digits, c) - 1

\* u8::to_ascii_lowercase, as HeaderName applies it to every byte of a name
ToLower(c) == IF c \in Range(UpperCase) THEN LowerCase[IndexIn(UpperCase, c)] ELSE c

LowerSeq(s) == [i \in 1..Len(s) |-> ToLower(s[i])]

\* the token characters http::HeaderName accepts
IsTChar(c) ==
    \/ c \in Range(UpperCase) \cup Range(LowerCase) \cup Range(Digits)
    \/ c \in {"-", "_", ".", "+"}

\* the bytes http::HeaderValue accepts: b >= 32 && b != 127, or tab
IsValueByte(c) == c \notin {CR, LF}

\* the bytes HeaderValue::to_str accepts: visible ASCII, space or tab
IsVisibleAscii(c) == c \notin {CR, LF, "0xFF", "U+FFFD"}

RECURSIVE Flatten(_)
Flatten(ss) == IF ss = <<>> THEN <<>> ELSE Head(ss) \o Flatten(Tail(ss))

\* first index at which pat occurs in s, 0 when it does not occur
FindSub(s, pat) ==
    LET hits == {i \in 1..(Len(s) - Len(pat) + 1) : SubSeq(s, i, i + Len(pat) - 1) = pat}
    IN  IF hits = {} THEN 0 ELSE CHOOSE i \in hits : \A j \in hits : i <= j

Drop(s, n) == SubSeq(s, n + 1, Len(s))

\* usize / u16 Display: decimal digits without padding
RECURSIVE ToDecimal(_)
ToDecimal(n) ==
    IF n < 10 THEN <<Digits[n + 1]>> ELSE ToDecimal(n \div 10) \o <<Digits[(n % 10) + 1]>>

\* the value of a digit string, cut off as soon as it exceeds max
RECURSIVE DigitsValue(_, _, _)
DigitsValue(s, acc, max) ==
    IF s = <<>> THEN acc
    ELSE IF acc > max THEN acc
    ELSE DigitsValue(Tail(s), acc * 10 + DigitValue(Head(s)), max)

\* str::parse for an unsigned integer of the given maximum: an optional "+",
\* then one or more digits, no overflow.  -1 stands for Err.
ParseUnsigned(s, max) ==
    LET ds == IF s # <<>> /\ Head(s) = "+" THEN Tail(s) ELSE s
    IN  IF ds = <<>> \/ \E i \in 1..Len(ds) : ~IsDigit(ds[i]) THEN -1
        ELSE LET v == DigitsValue(ds, 0, max) IN IF v > max THEN -1 ELSE v

\* ------------------------------------------------------------ data model
NoValue == <<"<none>">>

HTTP11 == <<"H", "T", "T", "P", "/", "1", ".", "1">>

HostName == <<"H", "o", "s", "t">>

ContentLengthName == <<"C", "o", "n", "t", "e", "n", "t", "-", "L", "e", "n", "g", "t", "h">>

\* http::header::CONTENT_LENGTH, a HeaderName (lower case)
CONTENT_LENGTH == LowerSeq(ContentLengthName)

Colon == <<":", SP>>

Header(n, v) == [name |-> n, value |-> v]

\* HeaderMap::insert: one value per name, an existing name keeps its place
MapInsert(map, n, v) ==
    IF \E i \in 1..Len(map) : map[i].name = n
    THEN [i \in 1..Len(map) |-> IF map[i].name = n THEN Header(n, v) ELSE map[i]]
    ELSE Append(map, Header(n, v))

\* HeaderMap::get: the first value of the name
MapGet(map, n) ==
    IF \E i \in 1..Len(map) : map[i].name = n
    THEN map[CHOOSE i \in 1..Len(map) : map[i].name = n /\ \A j \in 1..(i - 1) : map[j].name # n].value
    ELSE NoValue

\* --------------------------------------------------- request serialisation
\* <HeaderValue as Debug>::fmt: the bytes between double quotes, a double
\* quote escaped with a backslash
RECURSIVE EscapeValue(_)
EscapeValue(v) ==
    IF v = <<>> THEN <<>>
    ELSE (IF Head(v) = "\"" THEN <<"\\", "\"">> ELSE <<Head(v)>>) \o EscapeValue(Tail(v))

DebugValue(v) == <<"\"">> \o EscapeValue(v) \o <<"\"">>

\* the header lines of the loop of client.rs:70-72
RECURSIVE HeaderLines(_)
HeaderLines(hs) ==
    IF hs = <<>> THEN <<>>
    ELSE Head(hs).name \o Colon \o DebugValue(Head(hs).value) \o CRLF \o HeaderLines(Tail(hs))

\* request_str of send_request, client.rs:67-78
RequestStr(request, url) ==
    request.method \o <<SP>> \o url.path \o <<SP>> \o HTTP11 \o CRLF
    \o HostName \o Colon \o url.host \o CRLF
    \o HeaderLines(request.headers)
    \o (IF request.body # <<>>
        THEN ContentLengthName \o Colon \o ToDecimal(Len(request.body)) \o CRLF
        ELSE <<>>)
    \o CRLF

\* ---------------------------------------------------------- response parse
CRLFCRLF == <<CR, LF, CR, LF>>

\* buffer.windows(4).any(|w| w == b"\r\n\r\n")
ContainsTerminator(buf) == FindSub(buf, CRLFCRLF) # 0

\* String::from_utf8_lossy: an invalid byte becomes U+FFFD
Lossy(bytes) == [i \in 1..Len(bytes) |-> IF bytes[i] = "0xFF" THEN "U+FFFD" ELSE bytes[i]]

\* str::lines: lines end at LF, one CR before that LF is dropped, the text
\* after the last LF is a line when it is not empty
RECURSIVE Lines(_)
Lines(s) ==
    IF s = <<>> THEN <<>>
    ELSE LET i == FindSub(s, <<LF>>)
         IN  IF i = 0 THEN <<s>>
             ELSE LET raw  == SubSeq(s, 1, i - 1)
                      line == IF raw # <<>> /\ raw[Len(raw)] = CR
                              THEN SubSeq(raw, 1, Len(raw) - 1) ELSE raw
                  IN  <<line>> \o Lines(Drop(s, i))

\* str::splitn(3, ' ')
SplitN3(line) ==
    LET i == FindSub(line, <<SP>>)
    IN  IF i = 0 THEN <<line>>
        ELSE LET rest == Drop(line, i)
                 j    == FindSub(rest, <<SP>>)
             IN  IF j = 0 THEN <<SubSeq(line, 1, i - 1), rest>>
                 ELSE <<SubSeq(line, 1, i - 1), SubSeq(rest, 1, j - 1), Drop(rest, j)>>

\* HeaderName::from_str succeeds on a non-empty token
ValidHeaderName(key) == key # <<>> /\ \A i \in 1..Len(key) : IsTChar(key[i])

\* HeaderValue::from_str succeeds when no byte is a control character
ValidHeaderValue(value) == \A i \in 1..Len(value) : IsValueByte(value[i])

\* HeaderValueExt::to_string, client.rs:28-32
ValueToString(value) ==
    IF \A i \in 1..Len(value) : IsVisibleAscii(value[i]) THEN value ELSE <<>>

\* the loop over the header lines, client.rs:124-134
RECURSIVE HeadersLoop(_, _)
HeadersLoop(lines, map) ==
    IF lines = <<>> \/ Head(lines) = <<>> THEN [error |-> "", map |-> map]
    ELSE LET line == Head(lines)
             i    == FindSub(line, Colon)
         IN  IF i = 0 THEN HeadersLoop(Tail(lines), map)
             ELSE LET key   == SubSeq(line, 1, i - 1)
                      value == Drop(line, i + 1)
                  IN  IF ~ValidHeaderName(key) THEN [error |-> "InvalidHeaderName", map |-> map]
                      ELSE IF ~ValidHeaderValue(value)
                      THEN [error |-> "InvalidHeaderValue", map |-> map]
                      ELSE HeadersLoop(Tail(lines), MapInsert(map, LowerSeq(key), value))

Failure(e) ==
    [error |-> e, header_end |-> 0, status_code |-> 0, headers |-> <<>>, content_length |-> -1]

\* the header block is decoded: status line, header lines, content length,
\* client.rs:114-140; block is the buffer up to the end of the terminator that
\* begins at header_end, content_length -1 is None
ParseBlock(block, header_end) ==
    LET lines == Lines(Lossy(block))
    IN  IF lines = <<>> THEN Failure("Missing status line")
        ELSE
        LET parts == SplitN3(Head(lines))
        IN  IF Len(parts) < 2 THEN Failure("Missing status code")
            ELSE
            LET code == ParseUnsigned(parts[2], U16Max)
            IN  IF code = -1 THEN Failure("ParseIntError")
                ELSE IF code < StatusCodeMin \/ code > StatusCodeMax
                THEN Failure("InvalidStatusCode")
                ELSE
                LET hl == HeadersLoop(Tail(lines), <<>>)
                IN  IF hl.error # "" THEN Failure(hl.error)
                    ELSE
                    LET clv == MapGet(hl.map, CONTENT_LENGTH)
                        cl  == IF clv = NoValue THEN -1
                               ELSE ParseUnsigned(ValueToString(clv), UsizeModulus - 1)
                    IN  IF clv # NoValue /\ cl = -1 THEN Failure("ParseIntError")
                        ELSE [error |-> "", header_end |-> header_end + 3,
                              status_code |-> code, headers |-> hl.map,
                              content_length |-> cl]

\* a read_response that takes the end of the stream for the end of the
\* header block
ParseHeadAtEof(buffer) ==
    LET header_end == FindSub(buffer, CRLFCRLF)
    IN  IF header_end = 0
        THEN [ParseBlock(buffer, Len(buffer) + 1) EXCEPT !.header_end = Len(buffer)]
        ELSE ParseBlock(SubSeq(buffer, 1, header_end + 3), header_end)

\* read_response from the end of the header loop to the content length,
\* client.rs:109-140
ParseHead(buffer) ==
    LET header_end == FindSub(buffer, CRLFCRLF)
    IN  IF header_end = 0 THEN Failure("Invalid response")
        ELSE ParseBlock(SubSeq(buffer, 1, header_end + 3), header_end)

\* ------------------------------------------------------------------ inputs
StatusOK == <<"H", "T", "T", "P", "/", "1", ".", "1", SP, "2", "0", "0", SP, "O", "K">>

StatusNoReason == <<"H", "T", "T", "P", "/", "1", ".", "1", SP, "2", "0", "0">>

StatusNonNumeric == <<"H", "T", "T", "P", "/", "1", ".", "1", SP, "a", "b", "c", SP, "O", "K">>

StatusNoCode == <<"H", "T", "T", "P", "/", "1", ".", "1">>

Hello == <<"h", "e", "l", "l", "o">>

Abc == <<"a", "b", "c">>

XA == <<"X", "-", "A">>

Bogus == <<"b", "o", "g", "u", "s">>

\* a response message on the wire: status line, header lines, blank line, body
Msg(status, lines, body) ==
    status \o CRLF \o Flatten([i \in 1..Len(lines) |-> lines[i] \o CRLF]) \o CRLF \o body

HLine(n, v) == n \o Colon \o v

CL(n) == HLine(ContentLengthName, ToDecimal(n))

\* messages whose Content-Length equals the length of their body
WellFormed ==
    { [status_code |-> 200, lines |-> <<CL(5)>>, body |-> Hello],
      [status_code |-> 200, lines |-> <<CL(0)>>, body |-> <<>>],
      [status_code |-> 200, lines |-> <<HLine(XA, <<"1">>), CL(3)>>, body |-> Abc],
      [status_code |-> 200, lines |-> <<CL(4)>>, body |-> CRLFCRLF] }

WireOf(m) == Msg(StatusOK, m.lines, m.body)

MsgNoCL == Msg(StatusOK, <<>>, Hello)

MsgExcess == Msg(StatusOK, <<CL(2)>>, Hello)

MsgShort == Msg(StatusOK, <<CL(5)>>, <<"h", "e">>)

NoTerminator == StatusOK \o CRLF \o HLine(XA, <<"1">>) \o CRLF

ParseScripts ==
    {WireOf(m) : m \in WellFormed}
    \cup { MsgNoCL, MsgExcess, MsgShort, NoTerminator, <<>>,
           Msg(StatusOK, <<>>, <<>>),
           Msg(StatusOK, <<Bogus>>, <<>>),
           Msg(StatusOK, <<HLine(XA, <<"1">>), HLine(XA, <<"2">>)>>, <<>>),
           Msg(StatusOK, <<HLine(ContentLengthName, <<"x">>)>>, <<>>),
           Msg(StatusOK, <<HLine(XA, <<"0xFF">>)>>, <<>>),
           Msg(StatusNoReason, <<>>, <<>>),
           Msg(StatusNonNumeric, <<>>, <<>>),
           Msg(StatusNoCode, <<>>, <<>>) }

Tails == {"closed", "endless"}

\* what an endless peer keeps sending after the script, one byte per read
Filler == <<"x", "y">>

GET == <<"G", "E", "T">>

POST == <<"P", "O", "S", "T">>

Url(h, p, q) == [host |-> h, path |-> p, query |-> q]

Urls ==
    { Url(<<"h">>, <<"/", "p", "a", "t", "h">>, NoValue),
      Url(<<"h">>, <<"/", "p", "a", "t", "h">>, <<"q", "=", "1">>) }

HeaderSets ==
    { <<>>,
      <<Header(LowerSeq(XA), <<"v">>)>>,
      <<Header(LowerSeq(XA), <<"1">>), Header(LowerSeq(XA), <<"2">>)>>,
      <<Header(CONTENT_LENGTH, <<"0">>)>>,
      <<Header(LowerSeq(HostName), <<"e", "v", "i", "l">>)>> }

Call(m, u, hs, b) == [request |-> [method |-> m, headers |-> hs, body |-> b], url |-> u]

Calls == {Call(m, u, hs, b) : m \in {GET, POST}, u \in Urls, hs \in HeaderSets, b \in {<<>>, Abc}}

NoCall == [request |-> [method |-> <<>>, headers |-> <<>>, body |-> <<>>],
           url |-> Url(<<>>, <<>>, NoValue)]

PlainGet == Call(GET, Url(<<"h">>, <<"/", "p", "a", "t", "h">>, NoValue), <<>>, <<>>)

PlainPost == Call(POST, Url(<<"h">>, <<"/", "p", "a", "t", "h">>, NoValue), <<>>, Abc)

Tasks == {1, 2}

\* what the callers send and what the peer delivers: two clones sharing the
\* session, one caller against every peer script, one caller sending every
\* request
Scenarios ==
    { [plan |-> <<c1, c2>>, script |-> sc, tail |-> "closed"] :
           c1 \in {PlainGet, PlainPost}, c2 \in {PlainGet, PlainPost},
           sc \in {Msg(StatusOK, <<>>, <<>>) \o Msg(StatusOK, <<>>, <<>>),
                   Msg(StatusNonNumeric, <<>>, <<>>)} }
    \cup { [plan |-> <<PlainGet, NoCall>>, script |-> sc, tail |-> tl] :
           sc \in ParseScripts, tl \in Tails }
    \cup { [plan |-> <<c, NoCall>>, script |-> Msg(StatusOK, <<>>, <<>>), tail |-> "closed"] :
           c \in Calls }

\* ------------------------------------------------------------------- state
VARIABLES
    plan,       \* plan[t]: the request and URL clone t passes to send_request
    script,     \* the bytes the peer delivers
    tail,       \* what a read returns after the script: "closed" or "endless"
    pos,        \* how many bytes of script have been read, then the place in Filler
    conn,       \* "up", or "reset" once the transport fails
    lock,       \* the task holding the tokio Mutex, 0 when free
    waiters,    \* the tasks queued on the Mutex, first come first served
    pc,         \* pc[t]: where clone t is in send_request
    buffer,     \* buffer[t] of read_response
    head,       \* head[t]: what read_response decoded from the header block
    body,       \* body[t] of read_response
    remaining,  \* remaining[t] of read_response
    res,        \* res[t]: what send_request returned
    wire,       \* the writes that reached the stream, in order
    ops,        \* the tasks that used the stream, in order, repeats merged
    body_reads, \* body_reads[t]: the reads of the body loop that returned
    split,      \* split[t]: the terminator arrived in two reads
    failed,     \* a send_request on the session has returned an error
    late        \* late[t]: t called send_request after such a failure

vars == <<plan, script, tail, pos, conn, lock, waiters, pc, buffer, head, body,
          remaining, res, wire, ops, body_reads, split, failed, late>>

NoResult == [kind |-> "None", error |-> "", status_code |-> 0, headers |-> <<>>,
             body |-> <<>>, reason_phrase |-> <<>>]

Err(e) == [NoResult EXCEPT !.kind = "Err", !.error = e]

Panic(e) == [NoResult EXCEPT !.kind = "Panic", !.error = e]

\* Ok(Response { .. }), client.rs:157-163
Ok(h, b) == [kind |-> "Ok", error |-> "", status_code |-> h.status_code,
             headers |-> h.headers, body |-> b, reason_phrase |-> <<>>]

Init ==
    /\ \E sc \in Scenarios : plan = sc.plan /\ script = sc.script /\ tail = sc.tail
    /\ pos = 0
    /\ conn = "up"
    /\ lock = 0
    /\ waiters = <<>>
    /\ pc = [t \in Tasks |-> "idle"]
    /\ buffer = [t \in Tasks |-> <<>>]
    /\ head = [t \in Tasks |-> Failure("")]
    /\ body = [t \in Tasks |-> <<>>]
    /\ remaining = [t \in Tasks |-> 0]
    /\ res = [t \in Tasks |-> NoResult]
    /\ wire = <<>>
    /\ ops = <<>>
    /\ body_reads = [t \in Tasks |-> 0]
    /\ split = [t \in Tasks |-> FALSE]
    /\ failed = FALSE
    /\ late = [t \in Tasks |-> FALSE]

\* --------------------------------------------------------------- the guard
LockPcs == {"lock_head", "lock_body", "lock_read"}

\* where a task continues once lock().await has returned
Holding(p) ==
    CASE p = "lock_head" -> "write_head"
      [] p = "lock_body" -> "write_body"
      [] p = "lock_read" -> "read_hdr"
      [] OTHER -> p

\* the MutexGuard is dropped: the Mutex goes to the first waiter, which
\* continues, or becomes free; newpc is pc after the step of the releasing task
Unlock(newpc) ==
    IF waiters = <<>>
    THEN /\ lock' = 0
         /\ waiters' = waiters
         /\ pc' = newpc
    ELSE /\ lock' = Head(waiters)
         /\ waiters' = Tail(waiters)
         /\ pc' = [newpc EXCEPT ![Head(waiters)] = Holding(newpc[Head(waiters)])]

Touch(t) == IF ops # <<>> /\ ops[Len(ops)] = t THEN ops ELSE Append(ops, t)

\* the model keeps the newest MaxBuf bytes of a buffer
Clip(b) == IF Len(b) > MaxBuf THEN Drop(b, Len(b) - MaxBuf) ELSE b

\* ------------------------------------------------------------ send_request
\* send_request is called: request_str is built, the first lock() is reached
SendRequest(t) ==
    /\ pc[t] = "idle"
    /\ plan[t] # NoCall
    /\ pc' = [pc EXCEPT ![t] = "lock_head"]
    /\ late' = [late EXCEPT ![t] = failed]
    /\ UNCHANGED <<plan, script, tail, pos, conn, lock, waiters, buffer, head, body,
                   remaining, res, wire, ops, body_reads, split, failed>>

\* tokio::sync::Mutex::lock: taken when free, queued otherwise
Acquire(t) ==
    /\ pc[t] \in LockPcs
    /\ t \notin Range(waiters)
    /\ IF lock = 0
       THEN /\ lock' = t
            /\ pc' = [pc EXCEPT ![t] = Holding(pc[t])]
            /\ waiters' = waiters
       ELSE /\ waiters' = Append(waiters, t)
            /\ UNCHANGED <<lock, pc>>
    /\ UNCHANGED <<plan, script, tail, pos, conn, buffer, head, body, remaining, res,
                   wire, ops, body_reads, split, failed, late>>

\* a send_request whose error return keeps the guard
ReturnErrHoldingLock(t, e) ==
    /\ res' = [res EXCEPT ![t] = Err(e)]
    /\ failed' = TRUE
    /\ pc' = [pc EXCEPT ![t] = "done"]
    /\ UNCHANGED <<lock, waiters>>

\* send_request returns Err: the `?` of a write or of read_response
ReturnErr(t, e) ==
    /\ res' = [res EXCEPT ![t] = Err(e)]
    /\ failed' = TRUE
    /\ Unlock([pc EXCEPT ![t] = "done"])

\* write_all under the guard, client.rs:80 and 82; the guard is dropped at
\* the end of the statement
Write(t, part, bytes, next) ==
    /\ lock = t
    /\ ops' = Touch(t)
    /\ IF conn = "reset"
       THEN /\ ReturnErr(t, "io")
            /\ wire' = wire
       ELSE /\ wire' = Append(wire, [task |-> t, part |-> part, bytes |-> bytes])
            /\ Unlock([pc EXCEPT ![t] = next])
            /\ UNCHANGED <<res, failed>>
    /\ UNCHANGED <<plan, script, tail, pos, conn, buffer, head, body, remaining,
                   body_reads, split, late>>

WriteHead(t) ==
    /\ pc[t] = "write_head"
    /\ Write(t, "head", RequestStr(plan[t].request, plan[t].url),
             IF plan[t].request.body # <<>> THEN "lock_body" ELSE "lock_read")

WriteBody(t) ==
    /\ pc[t] = "write_body"
    /\ Write(t, "body", plan[t].request.body, "lock_read")

\* ----------------------------------------------------------- read_response
\* the chunks one stream.read into a buffer of cap bytes can return
Chunks(cap) ==
    IF pos < Len(script)
    THEN {SubSeq(script, pos + 1, pos + n) : n \in 1..Min(cap, Len(script) - pos)}
    ELSE IF tail = "closed" THEN {<<>>} ELSE {<<Filler[pos - Len(script) + 1]>>}

\* the read position after a chunk: past the script only the place in Filler
\* is kept
Advance(chunk) ==
    IF pos < Len(script) THEN pos + Len(chunk)
    ELSE IF chunk = <<>> THEN pos
    ELSE Len(script) + ((pos - Len(script) + 1) % Len(Filler))

\* the loop condition of client.rs:103-104 after a chunk has been appended
FoundAfterAppend(buf, chunk) == ContainsTerminator(buf \o chunk)

\* the first terminator of buf \o chunk begins in buf and ends in chunk
Straddles(buf, chunk) ==
    LET i == FindSub(buf \o chunk, CRLFCRLF)
    IN  i # 0 /\ i <= Len(buf) /\ Len(buf) < i + 3

\* a read_response that reads content_length more bytes whatever is buffered
InitialRemainingIgnoringBuffered(content_length, len) ==
    {[panic |-> "", value |-> content_length]}

\* content_length - body.len() on usize, client.rs:145: a panic when
\* overflow checks are on, the wrapped difference when they are off
InitialRemaining(content_length, len) ==
    IF content_length >= len
    THEN {[panic |-> "", value |-> content_length - len]}
    ELSE {[panic |-> "attempt to subtract with overflow", value |-> 0],
          [panic |-> "", value |-> content_length - len + UsizeModulus]}

\* a read_response that forgets the bytes buffered after the terminator
BodyStartEmpty(b, header_end) == <<>>

\* body_start.to_vec(), client.rs:109-112 and 142
BodyStart(b, header_end) == Drop(b, header_end)

\* vec![0; remaining], client.rs:147
AllocFails(n) == n > IsizeMax

\* a body loop that reads into a buffer of the size of the header loop's
BodyBufFixed(n) == HeaderBufSize

\* the length of the buffer a read of the body loop fills, client.rs:147-148
BodyBuf(n) == n

\* one stream.read of the header loop, client.rs:98-107
ReadHeaders(t) ==
    /\ pc[t] = "read_hdr"
    /\ lock = t
    /\ ops' = Touch(t)
    /\ IF conn = "reset"
       THEN /\ ReturnErr(t, "io")
            /\ UNCHANGED <<pos, buffer, split>>
       ELSE /\ \E chunk \in Chunks(HeaderBufSize) :
                /\ pos' = Advance(chunk)
                /\ buffer' = [buffer EXCEPT ![t] = Clip(@ \o chunk)]
                /\ IF chunk = <<>>
                   THEN /\ pc' = [pc EXCEPT ![t] = "parse"]
                        /\ split' = split
                   ELSE IF FoundAfterAppend(buffer[t], chunk)
                   THEN /\ pc' = [pc EXCEPT ![t] = "parse"]
                        /\ split' = [split EXCEPT ![t] = Straddles(buffer[t], chunk)]
                   ELSE UNCHANGED <<pc, split>>
            /\ UNCHANGED <<lock, waiters, res, failed>>
    /\ UNCHANGED <<plan, script, tail, conn, head, body, remaining, wire, body_reads, late>>

\* the header block is decoded, client.rs:109-140
ParseHeaders(t) ==
    /\ pc[t] = "parse"
    /\ lock = t
    /\ head' = [head EXCEPT ![t] = ParseHead(buffer[t])]
    /\ pc' = [pc EXCEPT ![t] = "collect"]
    /\ UNCHANGED <<plan, script, tail, pos, conn, lock, waiters, buffer, body, remaining,
                   res, wire, ops, body_reads, split, failed, late>>

\* the `?` of the decoding, then client.rs:142-147 up to the first read of
\* the body loop, or client.rs:157-163 when the loop is not entered
StartBody(t) ==
    /\ pc[t] = "collect"
    /\ lock = t
    /\ IF head[t].error # ""
       THEN /\ ReturnErr(t, head[t].error)
            /\ UNCHANGED <<body, remaining>>
       ELSE LET b0 == BodyStart(buffer[t], head[t].header_end)
            IN  /\ body' = [body EXCEPT ![t] = b0]
                /\ failed' = failed
                /\ IF head[t].content_length = -1
                   THEN /\ res' = [res EXCEPT ![t] = Ok(head[t], b0)]
                        /\ Unlock([pc EXCEPT ![t] = "done"])
                        /\ UNCHANGED remaining
                   ELSE \E r \in InitialRemaining(head[t].content_length, Len(b0)) :
                        /\ remaining' = [remaining EXCEPT ![t] = r.value]
                        /\ IF r.panic # ""
                           THEN /\ res' = [res EXCEPT ![t] = Panic(r.panic)]
                                /\ Unlock([pc EXCEPT ![t] = "done"])
                           ELSE IF r.value = 0
                           THEN /\ res' = [res EXCEPT ![t] = Ok(head[t], b0)]
                                /\ Unlock([pc EXCEPT ![t] = "done"])
                           ELSE IF AllocFails(r.value)
                           THEN /\ res' = [res EXCEPT ![t] = Panic("capacity overflow")]
                                /\ Unlock([pc EXCEPT ![t] = "done"])
                           ELSE /\ res' = res
                                /\ pc' = [pc EXCEPT ![t] = "read_body"]
                                /\ UNCHANGED <<lock, waiters>>
    /\ UNCHANGED <<plan, script, tail, pos, conn, buffer, head, wire, ops, body_reads,
                   split, late>>

\* one stream.read of the body loop, client.rs:146-154, and the return when
\* the loop ends
ReadBody(t) ==
    /\ pc[t] = "read_body"
    /\ lock = t
    /\ ops' = Touch(t)
    /\ IF conn = "reset"
       THEN /\ ReturnErr(t, "io")
            /\ UNCHANGED <<pos, body, remaining, body_reads>>
       ELSE \E chunk \in Chunks(BodyBuf(remaining[t])) :
            LET b == body[t] \o chunk
                r == remaining[t] - Len(chunk)
            IN  /\ pos' = Advance(chunk)
                /\ body_reads' = [body_reads EXCEPT ![t] = @ + 1]
                /\ failed' = failed
                /\ IF chunk = <<>>
                   THEN /\ UNCHANGED <<body, remaining>>
                        /\ res' = [res EXCEPT ![t] = Ok(head[t], body[t])]
                        /\ Unlock([pc EXCEPT ![t] = "done"])
                   ELSE /\ body' = [body EXCEPT ![t] = b]
                        /\ remaining' = [remaining EXCEPT ![t] = r]
                        /\ IF r = 0
                           THEN /\ res' = [res EXCEPT ![t] = Ok(head[t], b)]
                                /\ Unlock([pc EXCEPT ![t] = "done"])
                           ELSE UNCHANGED <<res, pc, lock, waiters>>
    /\ UNCHANGED <<plan, script, tail, conn, buffer, head, wire, split, late>>

\* the transport fails: every later read and write returns an I/O error
Reset ==
    /\ conn = "up"
    /\ conn' = "reset"
    /\ UNCHANGED <<plan, script, tail, pos, lock, waiters, pc, buffer, head, body,
                   remaining, res, wire, ops, body_reads, split, failed, late>>

Next ==
    \/ \E t \in Tasks : SendRequest(t)
    \/ \E t \in Tasks : Acquire(t)
    \/ \E t \in Tasks : WriteHead(t)
    \/ \E t \in Tasks : WriteBody(t)
    \/ \E t \in Tasks : ReadHeaders(t)
    \/ \E t \in Tasks : ParseHeaders(t)
    \/ \E t \in Tasks : StartBody(t)
    \/ \E t \in Tasks : ReadBody(t)
    \/ Reset

Spec == Init /\ [][Next]_vars

\* an await of send_request or read_response returns
Await(t) ==
    \/ Acquire(t)
    \/ WriteHead(t)
    \/ WriteBody(t)
    \/ ReadHeaders(t)
    \/ ReadBody(t)

\* the runtime keeps polling a call whose await can return, and the stream
\* answers every read and write; nothing forces a caller to call send_request
\* or the transport to fail
Fairness == WF_vars(\E t \in Tasks : Await(t))

FairSpec == Spec /\ Fairness

\* ------------------------------------------------------------------ claims
Done(t) == pc[t] = "done"

\* the bytes buffered after the header terminator when it was found
Buffered(t) == SubSeq(buffer[t], head[t].header_end + 1, Len(buffer[t]))

\* the header lines of a serialised request head: the lines after the
\* request line, up to the blank line
RECURSIVE UntilBlank(_)
UntilBlank(ls) ==
    IF ls = <<>> \/ Head(ls) = <<>> THEN <<>> ELSE <<Head(ls)>> \o UntilBlank(Tail(ls))

HeadLines(bytes) == UntilBlank(Tail(Lines(bytes)))

\* the name of a header line, lower case (names compare case-insensitively)
LineName(line) ==
    LET i == FindSub(line, <<":">>)
    IN  IF i = 0 THEN <<>> ELSE LowerSeq(SubSeq(line, 1, i - 1))

HasHeaderLine(bytes, n) ==
    \E i \in 1..Len(HeadLines(bytes)) : LineName(HeadLines(bytes)[i]) = n

\* C1: the writes of one send_request call are contiguous on the stream: no
\* write of another call lies between two writes of the same call.
C1_WritesContiguous ==
    \A i \in 1..Len(wire) : \A k \in i..Len(wire) :
        wire[i].task = wire[k].task => \A j \in i..k : wire[j].task = wire[i].task

\* C2: a request/response cycle is atomic: once another call has used the
\* stream, the first call does not use it again, so every call's writes and
\* reads form one uninterrupted run.
C2_CycleAtomic ==
    \A i \in 1..Len(ops) : \A k \in 1..Len(ops) : ops[i] = ops[k] => i = k

\* C3: with Content-Length L and more than L bytes buffered after the
\* terminator, read_response returns a body of exactly the first L buffered
\* bytes.
C3_ExcessLeftForNextMessage ==
    \A t \in Tasks :
        (/\ Done(t)
         /\ head[t].error = ""
         /\ head[t].content_length >= 0
         /\ Len(Buffered(t)) > head[t].content_length)
        => /\ res[t].kind = "Ok"
           /\ res[t].body = SubSeq(Buffered(t), 1, head[t].content_length)

\* C4: read_response never returns a Response whose body is shorter than the
\* declared Content-Length; a stream closed early gives a TruncatedBody error.
C4_TruncatedBodyIsError ==
    \A t \in Tasks :
        (res[t].kind = "Ok" /\ head[t].content_length >= 0)
        => Len(res[t].body) >= head[t].content_length

\* C5: read_response issues no further read once more than MaxHeaderBlock
\* bytes are accumulated without a terminator, and then fails with
\* HeadersTooLarge.
C5_HeaderBlockBounded ==
    \A t \in Tasks :
        /\ pc[t] = "read_hdr" => Len(buffer[t]) <= MaxHeaderBlock
        /\ (/\ Done(t)
            /\ conn = "up"
            /\ Len(buffer[t]) > MaxHeaderBlock
            /\ ~ContainsTerminator(buffer[t]))
           => res[t] = Err("HeadersTooLarge")

\* C6: read_response terminates: a call that is accumulating headers
\* eventually returns, also when the stream keeps delivering chunks that
\* never complete a terminator.
C6_HeaderLoopTerminates ==
    \A t \in Tasks : (pc[t] = "read_hdr") ~> (pc[t] # "read_hdr")

\* C7: a send_request called after a send_request on the session has failed
\* returns an error without writing to or reading from the stream.
C7_FailFastAfterFailure ==
    \A t \in Tasks :
        late[t] =>
            /\ \A i \in 1..Len(wire) : wire[i].task # t
            /\ buffer[t] = <<>>
            /\ Done(t) => res[t].kind = "Err"

\* C8: without a Content-Length header read_response reads nothing after the
\* read that found the terminator (the header loop never reads with a
\* terminator buffered, the body loop does not read), and the body is exactly
\* the bytes buffered after the first terminator.
C8_NoContentLengthBody ==
    \A t \in Tasks :
        /\ pc[t] = "read_hdr" => ~ContainsTerminator(buffer[t])
        /\ (Done(t) /\ res[t].kind = "Ok" /\ head[t].content_length = -1)
           => /\ body_reads[t] = 0
              /\ head[t].header_end = FindSub(buffer[t], CRLFCRLF) + 3
              /\ res[t].body = SubSeq(buffer[t], head[t].header_end + 1, Len(buffer[t]))

C8_Witness ==
    \E t \in Tasks :
        /\ Done(t)
        /\ res[t].kind = "Ok"
        /\ head[t].content_length = -1
        /\ res[t].body # <<>>
        /\ pos < Len(script)

\* the headers of a well-formed message as the Response holds them: names in
\* lower case, one value per name
ExpectedHeaders(m) ==
    [i \in 1..Len(m.lines) |->
        LET k == FindSub(m.lines[i], Colon)
        IN  Header(LowerSeq(SubSeq(m.lines[i], 1, k - 1)), Drop(m.lines[i], k + 1))]

\* C9: a well-formed message whose Content-Length equals its body length is
\* parsed to the same status code, headers and body however its bytes are
\* split into chunks.
C9_ChunkSizeIndependent ==
    \A t \in Tasks : \A m \in WellFormed :
        (script = WireOf(m) /\ Done(t) /\ conn = "up")
        => /\ res[t].kind = "Ok"
           /\ res[t].status_code = m.status_code
           /\ res[t].headers = ExpectedHeaders(m)
           /\ res[t].body = m.body

C9_Witness ==
    \E t \in Tasks : \E m \in WellFormed :
        /\ script = WireOf(m)
        /\ Done(t)
        /\ res[t].kind = "Ok"
        /\ split[t]
        /\ body_reads[t] >= 2
        /\ res[t].body = m.body

\* C10: the head send_request writes contains a Content-Length header line
\* if and only if the request body is not empty.
C10_ContentLengthIffBody ==
    \A i \in 1..Len(wire) :
        wire[i].part = "head"
        => (HasHeaderLine(wire[i].bytes, CONTENT_LENGTH)
            <=> plan[wire[i].task].request.body # <<>>)


\* the value of a header line: what follows the first ": "
LineValue(line) ==
    LET i == FindSub(line, Colon)
    IN  IF i = 0 THEN <<>> ELSE Drop(line, i + 1)

\* the header lines of a serialised head that carry the name n
LinesNamed(bytes, n) ==
    LET ls == HeadLines(bytes)
    IN  {i \in 1..Len(ls) : LineName(ls[i]) = n}

\* C11: the head send_request writes contains exactly one Host header line,
\* and its value is the host of the destination URL.
C11_ExactlyOneHost ==
    \A i \in 1..Len(wire) :
        wire[i].part = "head"
        => LET hosts == LinesNamed(wire[i].bytes, LowerSeq(HostName))
           IN  /\ Cardinality(hosts) = 1
               /\ \A k \in hosts :
                     LineValue(HeadLines(wire[i].bytes)[k]) = plan[wire[i].task].url.host


\* the lines of the header block a call received, the status line first
BlockLines(t) ==
    Lines(Lossy(SubSeq(buffer[t], 1, FindSub(buffer[t], CRLFCRLF) + 3)))

\* the call has returned after receiving a complete header block on a
\* transport that did not fail
Parsed(t) == Done(t) /\ conn = "up" /\ ContainsTerminator(buffer[t])

\* the space-separated parts of a line, however many
RECURSIVE Parts(_)
Parts(line) ==
    LET i == FindSub(line, <<SP>>)
    IN  IF i = 0 THEN <<line>> ELSE <<SubSeq(line, 1, i - 1)>> \o Parts(Drop(line, i))

\* C12: a non-empty line without ": " between the status line and the blank
\* line makes read_response fail; no Response is returned.
C12_MalformedHeaderLineIsError ==
    \A t \in Tasks :
        (/\ Parsed(t)
         /\ \E i \in 1..Len(UntilBlank(Tail(BlockLines(t)))) :
               FindSub(UntilBlank(Tail(BlockLines(t)))[i], Colon) = 0)
        => res[t].kind = "Err"

\* C13: a status line with fewer than three space-separated parts, or whose
\* status code is not a number, makes read_response fail; no Response is
\* returned.
C13_MalformedStatusLineIsError ==
    \A t \in Tasks :
        (/\ Parsed(t)
         /\ LET parts == Parts(Head(BlockLines(t)))
            IN  \/ Len(parts) < 3
                \/ \E i \in 1..Len(parts[2]) : ~IsDigit(parts[2][i]))
        => res[t].kind = "Err"

\* C14: a returned Response carries the reason phrase of the status line it
\* was parsed from: what follows the second space.
C14_ReasonPhraseKept ==
    \A t \in Tasks :
        (Parsed(t) /\ res[t].kind = "Ok" /\ Len(SplitN3(Head(BlockLines(t)))) = 3)
        => res[t].reason_phrase = SplitN3(Head(BlockLines(t)))[3]

\* the values the lines ls give the name n, in the order received
RECURSIVE ValuesOf(_, _)
ValuesOf(ls, n) ==
    IF ls = <<>> THEN <<>>
    ELSE (IF LineName(Head(ls)) = n THEN <<LineValue(Head(ls))>> ELSE <<>>)
         \o ValuesOf(Tail(ls), n)

\* the values a header collection holds for the name n, in order
RECURSIVE HeldValues(_, _)
HeldValues(map, n) ==
    IF map = <<>> THEN <<>>
    ELSE (IF Head(map).name = n THEN <<Head(map).value>> ELSE <<>>)
         \o HeldValues(Tail(map), n)

\* C15: the headers of a returned Response hold, for every name, all the
\* values the received header lines give it, in the order received.
C15_RepeatedHeadersKept ==
    \A t \in Tasks :
        (Parsed(t) /\ res[t].kind = "Ok")
        => LET ls == UntilBlank(Tail(BlockLines(t)))
           IN  \A i \in 1..Len(ls) :
                   FindSub(ls[i], Colon) # 0
                   => HeldValues(res[t].headers, LineName(ls[i])) = ValuesOf(ls, LineName(ls[i]))


\* "GET /path HTTP/1.1\r\nHost: h\r\n\r\n"
PlainGetBytes ==
    GET \o <<SP, "/", "p", "a", "t", "h", SP>> \o HTTP11 \o CRLF
    \o HostName \o Colon \o <<"h">> \o CRLF \o CRLF

\* C16: after the Host line the head holds one line name ": " value per
\* caller header, in order and with nothing around the value, then the
\* Content-Length line when there is a body; a GET of /path on host h without
\* headers and body is written as exactly PlainGetBytes.
C16_HeaderLinesVerbatim ==
    \A i \in 1..Len(wire) :
        wire[i].part = "head"
        => LET c  == plan[wire[i].task]
               hs == c.request.headers
           IN  /\ Tail(HeadLines(wire[i].bytes))
                    = [k \in 1..Len(hs) |-> hs[k].name \o Colon \o hs[k].value]
                      \o (IF c.request.body # <<>>
                          THEN <<ContentLengthName \o Colon \o ToDecimal(Len(c.request.body))>>
                          ELSE <<>>)
               /\ c = PlainGet => wire[i].bytes = PlainGetBytes

\* the request target of a URL: the path, then "?" and the query when the
\* URL has one
Target(url) == url.path \o (IF url.query = NoValue THEN <<>> ELSE <<"?">> \o url.query)

\* C17: the request line is METHOD SP target SP "HTTP/1.1", the target being
\* the URL's path followed by "?" and its query when it has one.
C17_TargetHasQuery ==
    \A i \in 1..Len(wire) :
        wire[i].part = "head"
        => LET c == plan[wire[i].task]
           IN  Head(Lines(wire[i].bytes))
                 = c.request.method \o <<SP>> \o Target(c.url) \o <<SP>> \o HTTP11


\* C18: when the stream is closed before any CRLFCRLF has been received,
\* whatever was received before, read_response decodes nothing and returns
\* the error "Invalid response"; send_request returns an error, no Response.
C18_CloseBeforeTerminatorIsError ==
    \A t \in Tasks :
        /\ pc[t] = "parse" => (ContainsTerminator(buffer[t]) \/ pos >= Len(script))
        /\ (pc[t] = "collect" /\ ~ContainsTerminator(buffer[t]))
           => head[t] = Failure("Invalid response")
        /\ (Done(t) /\ ~ContainsTerminator(buffer[t])) => res[t].kind = "Err"
        /\ (Done(t) /\ head[t].error = "Invalid response")
           => (res[t] = Err("Invalid response") /\ ~ContainsTerminator(buffer[t]))

\* a caller got "Invalid response" after the peer sent part of a header
\* block and closed
C18_Witness ==
    /\ Done(1)
    /\ res[1] = Err("Invalid response")
    /\ buffer[1] = NoTerminator
    /\ tail = "closed"
    /\ conn = "up"


\* the response being read by t has Content-Length L and at most L bytes of
\* its body were buffered by the header loop
WithinLength(t) ==
    /\ head[t].error = ""
    /\ head[t].content_length >= 0
    /\ Len(Buffered(t)) <= head[t].content_length

\* C19: with Content-Length L and at most L body bytes buffered, a read of
\* the body loop asks for the bytes still missing and no more: remaining is
\* L minus the bytes collected, the body never grows past L, and a caller
\* alone on the stream has read no byte past the end of its message.
C19_BodyReadsBounded ==
    \A t \in Tasks :
        (pc[t] \in {"read_body", "done"} /\ WithinLength(t))
        => /\ Len(body[t]) <= head[t].content_length
           /\ pc[t] = "read_body"
              => /\ remaining[t] = head[t].content_length - Len(body[t])
                 /\ remaining[t] > 0
                 /\ BodyBuf(remaining[t]) <= head[t].content_length - Len(body[t])
           /\ ops = <<t>> => pos <= head[t].header_end + head[t].content_length

\* the body loop collected a body of 2 bytes and left the 3 bytes the peer
\* sent after it unread
C19_Witness ==
    /\ script = MsgExcess
    /\ Done(1)
    /\ WithinLength(1)
    /\ body_reads[1] >= 1
    /\ res[1].kind = "Ok"
    /\ Len(res[1].body) = 2
    /\ pos = Len(script) - 3


\* t is inside one of the stream operations of send_request: the write of
\* the head, the write of the body, or read_response
InOperation(t) ==
    pc[t] \in {"write_head", "write_body", "read_hdr", "parse", "collect", "read_body"}

\* C20: a call holds the lock exactly while it is inside one stream
\* operation: it holds none between two operations, while it asks for the
\* lock, or after it returned, with a value or with an error; a call waiting
\* for the lock waits for another call that is inside an operation; the lock
\* is free when no call is inside an operation.
C20_LockOnlyInsideOperation ==
    /\ lock \in Tasks \cup {0}
    /\ \A t \in Tasks :
        /\ lock = t <=> InOperation(t)
        /\ pc[t] \in LockPcs => lock # t
        /\ Done(t) => (lock # t /\ t \notin Range(waiters))
        /\ t \in Range(waiters)
           => (pc[t] \in LockPcs /\ lock \in Tasks \ {t} /\ InOperation(lock))
    /\ (\A t \in Tasks : ~InOperation(t)) => (lock = 0 /\ waiters = <<>>)

\* both callers returned an error from read_response, one after the other,
\* and the lock is free
C20_Witness ==
    /\ \A t \in Tasks : Done(t) /\ res[t].kind = "Err" /\ wire # <<>>
    /\ Len(ops) >= 2
    /\ conn = "up"
    /\ lock = 0
    /\ waiters = <<>>

====
